---- MODULE Spec2Model ----
(***************************************************************************)
(* Model of streamlit_app.py: a Streamlit script that is re-run from top   *)
(* to bottom on every user interaction.  One run of the script is one      *)
(* interaction cycle; the only state that survives a run is the            *)
(* st.cache_data memo of load_data and the widget state the user set.      *)
(*                                                                         *)
(* Column labels are written in ASCII: "Production (m3)" stands for        *)
(* 'Production (m<sup>3</sup>)' and "Efficiency (m3/hour)" likewise.       *)
(***************************************************************************)
EXTENDS Integers, Sequences, FiniteSets, TLC

VARIABLES
    file,               \* what is on disk at FILE_PATH (static during a session)
    cache,              \* the st.cache_data memo of load_data()
    reads,              \* how many times pd.read_csv has opened the file
    first_load,         \* the first Table load_data produced, and reads at that time
    cycle,              \* number of the current script run
    pc,                 \* position of the current script run
    show_raw,           \* widget state of the 'Show Raw Data' checkbox
    df,
    countries,
    selected_countries,
    sources,
    selected_sources,
    filtered_df,
    metrics,            \* total_production, avg_efficiency, total_service_hours
    chart,              \* what st.altair_chart was given
    messages,           \* st.error / st.warning calls of the current run
    preview             \* what st.write(filtered_df.head(100)) was given

vars == <<file, cache, reads, first_load, cycle, pc, show_raw, df, countries,
          selected_countries, sources, selected_sources, filtered_df, metrics,
          chart, messages, preview>>

---------------------------------------------------------------------------
(* Bounds of the model *)

\* longest file whose rows are enumerated freely
MaxRows == 3
\* number of script runs in a session
MaxCycles == 2
\* how far beyond the preview length the long files go
MaxExtraRows == 1

(* Program constants *)

\* filtered_df.head(100)
PreviewRows == 100
\* total_production = ... / 1_000_000
MillionM3 == 1000000

DATE_COLUMN == "date"

RequiredColumns ==
    {"date", "country", "source", "production_m3", "service_hours",
     "production_m3_per_hour"}

---------------------------------------------------------------------------
(* Cell values *)

Num(v) == [nan |-> FALSE, v |-> v]
NaN == [nan |-> TRUE, v |-> 0]

\* The text of a date cell: its shape and, for the dash-separated
\* year-month-day shape, the numbers written in it.
RawDate(shape, y, m, d) == [shape |-> shape, y |-> y, m |-> m, d |-> d]

NaT == [nat |-> TRUE, year |-> 0, month |-> 0, day |-> 0]
Timestamp(y, m, d) == [nat |-> FALSE, year |-> y, month |-> m, day |-> d]

IsLeap(y) == (y % 4 = 0 /\ y % 100 # 0) \/ y % 400 = 0

DaysInMonth(y, m) ==
    IF m = 2 THEN (IF IsLeap(y) THEN 29 ELSE 28)
    ELSE IF m \in {4, 6, 9, 11} THEN 30 ELSE 31

\* pd.to_datetime(x, format='%Y-%m-%d', errors='coerce'): a value that does
\* not match the format, or names no calendar day, becomes NaT.
to_datetime(x) ==
    IF x.shape = "Y-m-d" /\ x.m \in 1..12 /\ x.d \in 1..DaysInMonth(x.y, x.m)
    THEN Timestamp(x.y, x.m, x.d)
    ELSE NaT

---------------------------------------------------------------------------
(* The files the model reads *)

RawRow(date, country, source, p, h, e) ==
    [c \in RequiredColumns |->
        CASE c = "date" -> date
          [] c = "country" -> country
          [] c = "source" -> source
          [] c = "production_m3" -> p
          [] c = "service_hours" -> h
          [] c = "production_m3_per_hour" -> e]

Pool ==
    << RawRow(RawDate("Y-m-d", 2023, 1, 1), "A", "X", Num(1000000), Num(5), Num(10)),
       RawRow(RawDate("Y-m-d", 2023, 1, 2), "A", "Y", Num(2000000), Num(7), Num(20)),
       RawRow(RawDate("Y-m-d", 2024, 2, 29), "B", "X", Num(500000), Num(0), NaN),
       RawRow(RawDate("Y-m-d", 2023, 13, 40), "A", "X", Num(100), Num(10), Num(10)),
       RawRow(RawDate("Y-m-d", 2023, 2, 29), "B", "Y", Num(300), Num(3), Num(100)),
       RawRow(RawDate("d/m/Y", 2023, 1, 3), "B", "Y", Num(40), Num(2), Num(20)) >>

RowSeqs == UNION {[1..n -> 1..Len(Pool)] : n \in 0..MaxRows}

\* the rows of a file, cut to the columns its header has
CsvFile(cols, idx) ==
    [exists |-> TRUE, readable |-> TRUE, columns |-> cols,
     rows |-> [i \in 1..Len(idx) |-> [c \in cols |-> Pool[idx[i]][c]]]]

ShortFiles ==
    {CsvFile(cols, idx) :
        cols \in {RequiredColumns} \cup {RequiredColumns \ {c} : c \in RequiredColumns},
        idx \in RowSeqs}

\* the pool rows whose date parses
GoodRows == <<1, 2, 3>>

\* long files, to reach the preview length: the rows with a good date
\* repeated, from an offset
LongFiles ==
    {CsvFile(RequiredColumns,
             [i \in 1..n |-> GoodRows[((i + k) % Len(GoodRows)) + 1]]) :
        n \in (PreviewRows - 1)..(PreviewRows + MaxExtraRows), k \in 0..1}

NoSuchFile == [exists |-> FALSE, readable |-> FALSE, columns |-> {}, rows |-> << >>]
\* a file pd.read_csv cannot tokenize (empty, binary, ragged)
GarbledFile == [exists |-> TRUE, readable |-> FALSE, columns |-> {}, rows |-> << >>]

Files == ShortFiles \cup LongFiles \cup {NoSuchFile, GarbledFile}

---------------------------------------------------------------------------
(* Data frames: the column labels and the rows; the date is the index *)

NoFrame == [none |-> TRUE]
NoMetrics == [none |-> TRUE]
NoChart == [none |-> TRUE]

Frame(cols, rows) == [columns |-> cols, rows |-> rows]

\* data.rename(columns={...}): labels that are absent are left alone
rename(c) ==
    CASE c = "production_m3" -> "Production (m3)"
      [] c = "service_hours" -> "Service Hours"
      [] c = "production_m3_per_hour" -> "Efficiency (m3/hour)"
      [] OTHER -> c

unrename(c) ==
    CASE c = "Production (m3)" -> "production_m3"
      [] c = "Service Hours" -> "service_hours"
      [] c = "Efficiency (m3/hour)" -> "production_m3_per_hour"
      [] OTHER -> c

\* one parsed row under its display labels
Renamed(cols, r, stamp) ==
    [c \in {rename(k) : k \in cols} |->
        IF c = DATE_COLUMN THEN stamp ELSE r[unrename(c)]]

\* rows[mask]: the rows whose mask is TRUE, in order (the scan is split in
\* halves to keep the evaluation shallow)
RECURSIVE BoolIndex(_, _)
BoolIndex(rows, mask) ==
    IF Len(rows) = 0 THEN << >>
    ELSE IF Len(rows) = 1 THEN (IF mask[1] THEN <<rows[1]>> ELSE << >>)
    ELSE LET n == Len(rows)
             h == n \div 2
         IN BoolIndex(SubSeq(rows, 1, h), SubSeq(mask, 1, h))
            \o BoolIndex(SubSeq(rows, h + 1, n), SubSeq(mask, h + 1, n))

Column(frame, c) == [i \in 1..Len(frame.rows) |-> frame.rows[i][c]]

\* Series.isin(values)
isin(series, values) == [i \in 1..Len(series) |-> series[i] \in values]

\* Series.unique(): the distinct values in order of first appearance
Range(s) == {s[i] : i \in 1..Len(s)}

RECURSIVE unique(_)
unique(series) ==
    IF Len(series) <= 1 THEN series
    ELSE LET n == Len(series)
             h == n \div 2
             front == unique(SubSeq(series, 1, h))
             back == unique(SubSeq(series, h + 1, n))
         IN front \o BoolIndex(back, [i \in 1..Len(back) |-> back[i] \notin Range(front)])

\* DataFrame.head(n)
head(rows, n) == SubSeq(rows, 1, IF Len(rows) < n THEN Len(rows) ELSE n)

---------------------------------------------------------------------------
(* load_data *)

Returned(v) == [raised |-> "none", value |-> v]
Raised(kind) == [raised |-> kind, value |-> NoFrame]

\* data.dropna(subset=[DATE_COLUMN]) on the parsed rows
dropna_keep_all(stamps) == [i \in 1..Len(stamps) |-> TRUE]

dropna(stamps) == [i \in 1..Len(stamps) |-> ~stamps[i].nat]

load_data(f) ==
    IF ~f.exists THEN Raised("FileNotFoundError")
    ELSE IF ~f.readable THEN Raised("ParserError")
    ELSE IF DATE_COLUMN \notin f.columns THEN Raised("ValueError")
    ELSE LET stamps == [i \in 1..Len(f.rows) |-> to_datetime(f.rows[i][DATE_COLUMN])]
             parsed == [i \in 1..Len(f.rows) |-> Renamed(f.columns, f.rows[i], stamps[i])]
         IN Returned(Frame({rename(c) : c \in f.columns} \ {DATE_COLUMN},
                           BoolIndex(parsed, dropna(stamps))))

\* @st.cache_data: a value the function returned is kept; an exception is not
cache_hit_never(c) == FALSE

cache_hit(c) == c # NoFrame

---------------------------------------------------------------------------
(* Filtering and the three aggregates *)

\* df[df['country'].isin(selected_countries)]
by_country(frame, cs) ==
    Frame(frame.columns, BoolIndex(frame.rows, isin(Column(frame, "country"), cs)))

cascade_all_sources(frame, cs) == unique(Column(frame, "source"))

\* filtered_by_country['source'].unique()
cascade_sources(frame, cs) == unique(Column(by_country(frame, cs), "source"))

apply_filters_country_only(frame, cs, ss) ==
    Frame(frame.columns, BoolIndex(frame.rows, isin(Column(frame, "country"), cs)))

apply_filters_or(frame, cs, ss) ==
    LET c == isin(Column(frame, "country"), cs)
        s == isin(Column(frame, "source"), ss)
    IN Frame(frame.columns,
             BoolIndex(frame.rows, [i \in 1..Len(frame.rows) |-> c[i] \/ s[i]]))

\* df[df['country'].isin(selected_countries) & df['source'].isin(selected_sources)]
apply_filters(frame, cs, ss) ==
    LET c == isin(Column(frame, "country"), cs)
        s == isin(Column(frame, "source"), ss)
    IN Frame(frame.columns,
             BoolIndex(frame.rows, [i \in 1..Len(frame.rows) |-> c[i] /\ s[i]]))

\* Series.sum(): NaN cells are skipped
RECURSIVE series_sum(_)
series_sum(series) ==
    IF Len(series) = 0 THEN 0
    ELSE IF Len(series) = 1 THEN (IF series[1].nan THEN 0 ELSE series[1].v)
    ELSE LET n == Len(series)
             h == n \div 2
         IN series_sum(SubSeq(series, 1, h)) + series_sum(SubSeq(series, h + 1, n))

\* Series.count(): the cells that are not NaN
series_count(series) == Cardinality({i \in 1..Len(series) : ~series[i].nan})

\* a quotient num / den, kept exact
Quot(num, den) == [nan |-> FALSE, num |-> num, den |-> den]
QuotNaN == [nan |-> TRUE, num |-> 0, den |-> 1]

series_mean_all_rows(series) ==
    IF Len(series) = 0 THEN QuotNaN ELSE Quot(series_sum(series), Len(series))

\* Series.mean(): NaN cells are left out of both the sum and the count
series_mean(series) ==
    IF series_count(series) = 0 THEN QuotNaN
    ELSE Quot(series_sum(series), series_count(series))

\* lines 77-79
summarize(frame) ==
    [total_production |-> Quot(series_sum(Column(frame, "Production (m3)")), MillionM3),
     avg_efficiency |-> series_mean(Column(frame, "Efficiency (m3/hour)")),
     total_service_hours |-> series_sum(Column(frame, "Service Hours"))]

metric_options == <<"Production (m3)", "Efficiency (m3/hour)", "Service Hours">>

---------------------------------------------------------------------------
(* One script run *)

Error(kind) == [level |-> "error", kind |-> kind]
Warning == [level |-> "warning", kind |-> "EmptySelection"]
\* what Streamlit shows for an exception no handler caught
Uncaught(kind) == [level |-> "exception", kind |-> kind]

Init ==
    /\ file \in Files
    /\ cache = NoFrame
    /\ reads = 0
    /\ first_load = NoFrame
    /\ cycle = 1
    /\ pc = "start"
    /\ show_raw = FALSE
    /\ df = NoFrame
    /\ countries = << >>
    /\ selected_countries = {}
    /\ sources = << >>
    /\ selected_sources = {}
    /\ filtered_df = NoFrame
    /\ metrics = NoMetrics
    /\ chart = NoChart
    /\ messages = << >>
    /\ preview = NoFrame

\* what the user may have picked in a multiselect: the default on the first
\* run, any subset of the options once they have interacted
Picks(options) ==
    IF cycle = 1 THEN {Range(options)} ELSE SUBSET Range(options)

on_load_error_continue(kind) ==
    /\ messages' = Append(messages, Error(kind))
    /\ df' = Frame(RequiredColumns, << >>)
    /\ pc' = "loaded"

\* lines 35-40: st.error(...) then st.stop()
on_load_error(kind) ==
    /\ messages' = Append(messages, Error(kind))
    /\ df' = NoFrame
    /\ pc' = "stopped"

\* lines 33-40
Load ==
    /\ pc = "start"
    /\ LET hit == cache_hit(cache)
           res == IF hit THEN Returned(cache) ELSE load_data(file)
       IN /\ reads' = IF ~hit /\ file.exists THEN reads + 1 ELSE reads
          /\ cache' = IF res.raised = "none" THEN res.value ELSE cache
          /\ first_load' = IF first_load = NoFrame /\ res.raised = "none"
                           THEN [table |-> res.value, reads |-> reads']
                           ELSE first_load
          /\ CASE res.raised = "none" ->
                    /\ df' = res.value
                    /\ pc' = "loaded"
                    /\ UNCHANGED messages
               [] res.raised = "FileNotFoundError" -> on_load_error("FileNotFound")
               [] OTHER -> on_load_error("ParseError")
    /\ UNCHANGED <<file, cycle, show_raw, countries, selected_countries, sources,
                   selected_sources, filtered_df, metrics, chart, preview>>

\* an exception outside the try block ends the run
Crash(kind) ==
    /\ messages' = Append(messages, Uncaught(kind))
    /\ pc' = "crashed"

\* lines 50-55
CountrySelector ==
    /\ pc = "loaded"
    /\ IF "country" \notin df.columns
       THEN /\ Crash("KeyError")
            /\ UNCHANGED <<countries, selected_countries>>
       ELSE /\ countries' = unique(Column(df, "country"))
            /\ selected_countries' \in Picks(countries')
            /\ pc' = "country_chosen"
            /\ UNCHANGED messages
    /\ UNCHANGED <<file, cache, reads, first_load, cycle, show_raw, df, sources,
                   selected_sources, filtered_df, metrics, chart, preview>>

\* lines 58-64
SourceSelector ==
    /\ pc = "country_chosen"
    /\ IF "source" \notin df.columns
       THEN /\ Crash("KeyError")
            /\ UNCHANGED <<sources, selected_sources>>
       ELSE /\ sources' = cascade_sources(df, selected_countries)
            /\ selected_sources' \in Picks(sources')
            /\ pc' = "source_chosen"
            /\ UNCHANGED messages
    /\ UNCHANGED <<file, cache, reads, first_load, cycle, show_raw, df, countries,
                   selected_countries, filtered_df, metrics, chart, preview>>

\* lines 67-70
ApplyFilters ==
    /\ pc = "source_chosen"
    /\ filtered_df' = apply_filters(df, selected_countries, selected_sources)
    /\ pc' = "filtered"
    /\ UNCHANGED <<file, cache, reads, first_load, cycle, show_raw, df, countries,
                   selected_countries, sources, selected_sources, metrics, chart,
                   messages, preview>>

metrics_wanted_always(frame) == TRUE

\* line 73: if not filtered_df.empty
metrics_wanted(frame) == Len(frame.rows) > 0

\* lines 73-122
Render ==
    /\ pc = "filtered"
    /\ IF metrics_wanted(filtered_df)
       THEN IF {"Production (m3)", "Efficiency (m3/hour)", "Service Hours"}
                    \subseteq filtered_df.columns
            THEN /\ metrics' = summarize(filtered_df)
                 /\ \E m \in Range(metric_options) :
                        chart' = [x |-> DATE_COLUMN, y |-> m, color |-> "source",
                                  data |-> filtered_df.rows]
                 /\ pc' = "rendered"
                 /\ UNCHANGED messages
            ELSE /\ Crash("KeyError")
                 /\ UNCHANGED <<metrics, chart>>
       ELSE /\ messages' = Append(messages, Warning)
            /\ pc' = "rendered"
            /\ UNCHANGED <<metrics, chart>>
    /\ UNCHANGED <<file, cache, reads, first_load, cycle, show_raw, df, countries,
                   selected_countries, sources, selected_sources, filtered_df, preview>>

\* line 127: filtered_df.head(100)
raw_data(frame) == Frame(frame.columns, head(frame.rows, PreviewRows))

\* lines 125-127
RawData ==
    /\ pc = "rendered"
    /\ preview' = IF show_raw THEN raw_data(filtered_df) ELSE NoFrame
    /\ pc' = "done"
    /\ UNCHANGED <<file, cache, reads, first_load, cycle, show_raw, df, countries,
                   selected_countries, sources, selected_sources, filtered_df,
                   metrics, chart, messages>>

\* the user touches a widget (or reloads the page): the script runs again
\* from the top; only the memo and the widget state survive
Rerun ==
    /\ pc \in {"done", "stopped", "crashed"}
    /\ cycle < MaxCycles
    /\ cycle' = cycle + 1
    /\ show_raw' \in BOOLEAN
    /\ pc' = "start"
    /\ df' = NoFrame
    /\ countries' = << >>
    /\ selected_countries' = {}
    /\ sources' = << >>
    /\ selected_sources' = {}
    /\ filtered_df' = NoFrame
    /\ metrics' = NoMetrics
    /\ chart' = NoChart
    /\ messages' = << >>
    /\ preview' = NoFrame
    /\ UNCHANGED <<file, cache, reads, first_load>>

Next ==
    \/ Load
    \/ CountrySelector
    \/ SourceSelector
    \/ ApplyFilters
    \/ Render
    \/ RawData
    \/ Rerun

Spec == Init /\ [][Next]_vars

---------------------------------------------------------------------------
(* The filter expression of lines 67-70 on its own, applied to any loaded  *)
(* table and any two selection sets, also ones no widget state can hold    *)
(* (a source picked under no country, a value the table does not have).    *)

AnyCountries == {"A", "B", "C"}
AnySources == {"X", "Y", "Z"}

LoadedTables ==
    {load_data(f).value : f \in {g \in ShortFiles \cup LongFiles : g.columns = RequiredColumns}}

InitFilter ==
    /\ file = NoSuchFile
    /\ cache = NoFrame
    /\ reads = 0
    /\ first_load = NoFrame
    /\ cycle = 1
    /\ pc = "filter_input"
    /\ show_raw = FALSE
    /\ df \in LoadedTables
    /\ countries = << >>
    /\ selected_countries \in SUBSET AnyCountries
    /\ sources = << >>
    /\ selected_sources \in SUBSET AnySources
    /\ filtered_df = NoFrame
    /\ metrics = NoMetrics
    /\ chart = NoChart
    /\ messages = << >>
    /\ preview = NoFrame

FilterCall ==
    /\ pc = "filter_input"
    /\ filtered_df' = apply_filters(df, selected_countries, selected_sources)
    /\ pc' = "filter_result"
    /\ UNCHANGED <<file, cache, reads, first_load, cycle, show_raw, df, countries,
                   selected_countries, sources, selected_sources, metrics, chart,
                   messages, preview>>

NextFilter == FilterCall

SpecFilter == InitFilter /\ [][NextFilter]_vars

---------------------------------------------------------------------------
(* Properties *)

\* out holds exactly the rows of rows at the positions K: each of them once,
\* in the order of rows, and nothing else
IsSelection(out, rows, K) ==
    /\ Len(out) = Cardinality(K)
    /\ \A i \in K : out[Cardinality({j \in K : j <= i})] = rows[i]

Min(a, b) == IF a < b THEN a ELSE b

RECURSIVE SumOver(_, _, _)
SumOver(f, lo, hi) ==
    IF lo > hi THEN 0
    ELSE IF lo = hi THEN f[lo]
    ELSE SumOver(f, lo, (lo + hi) \div 2) + SumOver(f, ((lo + hi) \div 2) + 1, hi)

RECURSIVE Gcd(_, _)
Gcd(a, b) == IF b = 0 THEN a ELSE Gcd(b, a % b)

\* the quotient q is the number a / b (b > 0), compared in lowest terms
IsQuotient(q, a, b) ==
    /\ ~q.nan
    /\ q.den > 0
    /\ q.num \div Gcd(q.num, q.den) = a \div Gcd(a, b)
    /\ q.den \div Gcd(q.num, q.den) = b \div Gcd(a, b)

\* C1: the filtered table holds exactly the rows of the table whose country
\* is among the selected countries and whose source is among the selected
\* sources, each once and in table order; with no country or no source
\* selected it is empty.
FilterExact ==
    filtered_df # NoFrame =>
        /\ IsSelection(filtered_df.rows, df.rows,
                       {i \in 1..Len(df.rows) :
                            /\ df.rows[i]["country"] \in selected_countries
                            /\ df.rows[i]["source"] \in selected_sources})
        /\ (selected_countries = {} \/ selected_sources = {}) => filtered_df.rows = << >>

FilterExactWitness ==
    /\ pc = "filter_result"
    /\ Len(df.rows) = 3
    /\ <<df.rows[1]["country"], df.rows[1]["source"]>> = <<"A", "X">>
    /\ <<df.rows[2]["country"], df.rows[2]["source"]>> = <<"A", "Y">>
    /\ <<df.rows[3]["country"], df.rows[3]["source"]>> = <<"B", "X">>
    /\ selected_countries = {"A"}
    /\ selected_sources = {"X"}
    /\ filtered_df.rows = <<df.rows[1]>>

\* C2: a run whose filtered table is empty shows the warning and computes
\* neither the metrics nor the chart; metrics exist only beside a filtered
\* table of at least one row.
EmptyMeansWarning ==
    /\ (filtered_df # NoFrame /\ Len(filtered_df.rows) = 0) =>
            /\ metrics = NoMetrics
            /\ chart = NoChart
            /\ pc \in {"filtered", "rendered", "done"}
            /\ pc \in {"rendered", "done"} => messages = <<Warning>>
    /\ (metrics # NoMetrics \/ chart # NoChart) =>
            /\ filtered_df # NoFrame
            /\ Len(filtered_df.rows) >= 1

EmptyMeansWarningWitness ==
    /\ pc = "done"
    /\ Len(df.rows) > 0
    /\ "Service Hours" \in df.columns
    /\ filtered_df.rows = << >>
    /\ messages = <<Warning>>
    /\ metrics = NoMetrics

LoadFails == ~file.exists \/ ~file.readable \/ "date" \notin file.columns

\* C3: a run whose load fails shows exactly one error (FileNotFound for a
\* missing path, ParseError otherwise) and stops: no selector options, no
\* filtering, no metrics, no chart, no preview.
LoadFailureHalts ==
    (LoadFails /\ pc # "start") =>
        /\ pc = "stopped"
        /\ messages = <<Error(IF file.exists THEN "ParseError" ELSE "FileNotFound")>>
        /\ countries = << >>
        /\ sources = << >>
        /\ selected_countries = {}
        /\ selected_sources = {}
        /\ filtered_df = NoFrame
        /\ metrics = NoMetrics
        /\ chart = NoChart
        /\ preview = NoFrame

LoadFailureHaltsWitness ==
    /\ pc = "stopped"
    /\ show_raw
    /\ file.exists
    /\ messages = <<Error("ParseError")>>

\* C4: a file that lacks any required column ends the run in the ParseError
\* state: the load does not succeed.
MissingColumnIsParseError ==
    (file.exists /\ file.readable /\ file.columns # RequiredColumns /\ pc # "start") =>
        /\ pc = "stopped"
        /\ messages = <<Error("ParseError")>>

MonthLengths == <<31, 28, 31, 30, 31, 30, 31, 31, 30, 31, 30, 31>>

\* a date cell written as year-month-day that names a day of the calendar
StrictYMD(x) ==
    /\ x.shape = "Y-m-d"
    /\ x.m >= 1 /\ x.m <= 12
    /\ x.d >= 1
    /\ \/ x.d <= MonthLengths[x.m]
       \/ x.m = 2 /\ x.d = 29 /\ x.y % 4 = 0 /\ (x.y % 100 # 0 \/ x.y % 400 = 0)

\* the record a file row with a parsed date becomes
AsRecord(r) ==
    [c \in {"date", "country", "source", "Production (m3)", "Service Hours",
            "Efficiency (m3/hour)"} |->
        CASE c = "date" -> [nat |-> FALSE, year |-> r["date"].y,
                            month |-> r["date"].m, day |-> r["date"].d]
          [] c = "country" -> r["country"]
          [] c = "source" -> r["source"]
          [] c = "Production (m3)" -> r["production_m3"]
          [] c = "Service Hours" -> r["service_hours"]
          [] c = "Efficiency (m3/hour)" -> r["production_m3_per_hour"]]

\* C5: for a readable file with the required columns the load signals no
\* error, and the table is exactly the file's rows whose date parses as a
\* strict year-month-day date, in file order; no row has a null date.
LoadKeepsParsedDates ==
    (file.exists /\ file.readable /\ file.columns = RequiredColumns /\ pc # "start") =>
        /\ pc # "stopped"
        /\ \A i \in 1..Len(messages) : messages[i].level # "error"
        /\ df # NoFrame
        /\ IsSelection(df.rows, [i \in 1..Len(file.rows) |-> AsRecord(file.rows[i])],
                       {i \in 1..Len(file.rows) : StrictYMD(file.rows[i]["date"])})
        /\ \A k \in 1..Len(df.rows) : ~df.rows[k]["date"].nat

LoadKeepsParsedDatesWitness ==
    /\ pc = "loaded"
    /\ file.columns = RequiredColumns
    /\ Len(file.rows) = 3
    /\ StrictYMD(file.rows[1]["date"])
    /\ file.rows[2]["date"] = RawDate("Y-m-d", 2023, 13, 40)
    /\ StrictYMD(file.rows[3]["date"])
    /\ Len(df.rows) = 2
    /\ df.rows[2]["country"] = file.rows[3]["country"]

\* C6 as stated: the file is read and parsed at most once in a session.
ReadAtMostOnce == reads <= 1

\* C6 amended: the file is loaded successfully at most once; after that no
\* run reads it again and every run obtains the table of that first load,
\* whatever was selected, filtered or aggregated in between.  A load that
\* fails is not memoized: every run reads the file again.
LoadedOnce ==
    /\ first_load # NoFrame =>
            /\ reads = first_load.reads
            /\ cache = first_load.table
            /\ pc # "stopped"
            /\ pc # "start" => df = first_load.table
    /\ first_load = NoFrame =>
            /\ cache = NoFrame
            /\ (file.exists /\ pc # "start") => reads = cycle

LoadedOnceWitness ==
    /\ cycle = 2
    /\ pc = "done"
    /\ reads = 1
    /\ Len(df.rows) >= 2
    /\ Len(filtered_df.rows) = 1
    /\ metrics # NoMetrics
    /\ df = first_load.table

\* the sources the table has under the given countries
SourcesUnder(frame, cs) ==
    IF {"country", "source"} \subseteq frame.columns
    THEN {frame.rows[i]["source"] :
            i \in {j \in 1..Len(frame.rows) : frame.rows[j]["country"] \in cs}}
    ELSE {}

\* C7: once the source selector is built, the sources offered are exactly
\* the sources of the records whose country is selected; with no country
\* selected none is offered.
SourcesCascade ==
    (pc \in {"source_chosen", "filtered", "rendered", "done", "crashed"}) =>
        /\ Range(sources) = SourcesUnder(df, selected_countries)
        /\ selected_countries = {} => sources = << >>

SourcesCascadeWitness ==
    /\ pc = "source_chosen"
    /\ selected_countries = {"B"}
    /\ Range(sources) = {"X"}
    /\ \E i \in 1..Len(df.rows) :
            df.rows[i]["country"] = "A" /\ df.rows[i]["source"] = "Y"

\* C8: the metrics of a non-empty filtered table are the sum of production
\* over one million, the sum of service hours, and the sum of the efficiency
\* cells that are not NaN over their number; production 1,000,000 and
\* 2,000,000, hours 5 and 7, efficiency 10 and 20 give 3, 12 and 15.
SummaryValues ==
    /\ (/\ pc \in {"rendered", "done"}
        /\ Len(filtered_df.rows) >= 1) => metrics # NoMetrics
    /\ metrics # NoMetrics =>
        LET rows == filtered_df.rows
            n == Len(rows)
            prod == [i \in 1..n |-> rows[i]["Production (m3)"].v]
            hours == [i \in 1..n |-> rows[i]["Service Hours"].v]
            known == {i \in 1..n : ~rows[i]["Efficiency (m3/hour)"].nan}
            eff == [i \in 1..n |-> IF i \in known THEN rows[i]["Efficiency (m3/hour)"].v ELSE 0]
        IN /\ n >= 1
           /\ pc \in {"rendered", "done"}
           /\ IsQuotient(metrics.total_production, SumOver(prod, 1, n), 1000000)
           /\ metrics.total_service_hours = SumOver(hours, 1, n)
           /\ known # {} =>
                IsQuotient(metrics.avg_efficiency, SumOver(eff, 1, n), Cardinality(known))
           /\ known = {} => metrics.avg_efficiency.nan
           /\ (/\ n = 2
               /\ prod = <<1000000, 2000000>>
               /\ hours = <<5, 7>>
               /\ known = {1, 2}
               /\ eff = <<10, 20>>) =>
                    /\ IsQuotient(metrics.total_production, 3, 1)
                    /\ metrics.total_service_hours = 12
                    /\ IsQuotient(metrics.avg_efficiency, 15, 1)

SummaryValuesWitness ==
    /\ pc = "rendered"
    /\ Len(filtered_df.rows) = 3
    /\ filtered_df.rows[1]["Production (m3)"] = Num(1000000)
    /\ filtered_df.rows[2]["Efficiency (m3/hour)"] = NaN
    /\ filtered_df.rows[3]["Production (m3)"] = Num(2000000)
    /\ metrics.total_production = Quot(3500000, MillionM3)
    /\ metrics.total_service_hours = 12
    /\ metrics.avg_efficiency = Quot(30, 2)

\* C9: a run that did not stop on a load error, has a filtered table and
\* has the raw-data toggle on ends with a preview of the first min(100, n)
\* rows of the filtered table, in its order.
PreviewShown ==
    (show_raw /\ filtered_df # NoFrame /\ pc \in {"done", "crashed"}) =>
        /\ preview # NoFrame
        /\ Len(preview.rows) = Min(PreviewRows, Len(filtered_df.rows))
        /\ \A i \in 1..Len(preview.rows) : preview.rows[i] = filtered_df.rows[i]

\* C10: with the selections the widgets allow, the filtered table is empty
\* exactly when no source is selected, the warning is shown exactly then,
\* and the default selection (every country, every offered source) filters
\* nothing out.
EmptyIffNoSource ==
    filtered_df # NoFrame =>
        /\ selected_countries \subseteq Range(countries)
        /\ selected_sources \subseteq Range(sources)
        /\ Len(filtered_df.rows) = 0 <=> selected_sources = {}
        /\ pc \in {"rendered", "done", "crashed"} =>
                ((\E i \in 1..Len(messages) : messages[i] = Warning)
                    <=> selected_sources = {})
        /\ (selected_countries = Range(countries) /\ selected_sources = Range(sources))
                => filtered_df.rows = df.rows

EmptyIffNoSourceWitness ==
    /\ pc = "done"
    /\ selected_countries = {"A", "B"}
    /\ Len(sources) = 2
    /\ selected_sources = {}
    /\ filtered_df.rows = << >>
    /\ messages = <<Warning>>

====
